---- MODULE Spec2Model ----
(***************************************************************************)
(* The ticket-analytics route handler (GET ?route=<name>) of the help-desk *)
(* application, as a state machine: one request at a time is received,     *)
(* authorised, dispatched to one of seven aggregation functions, and each  *)
(* aggregation function issues its store queries one await at a time.      *)
(* Between two awaits the ticket store may be changed by the rest of the   *)
(* application (specification SpecConcurrent) or stay as it is (Spec).     *)
(***************************************************************************)
EXTENDS Integers, Sequences, FiniteSets, Bags, TLC

\* ------------------------------------------------------------------ bounds

\* Rows of a ticket table whose rows differ in one column.
MaxTickets == 3
\* Rows of a ticket table whose rows differ in status and in userId or clientId.
MaxGroupedTickets == 2
\* Rows of the ticket table the rest of the application writes to.
MaxConcurrentTickets == 2
\* Person ids.
MaxPersons == 2

\* --------------------------------------------------------------- the store

\* userId is nullable: null is modelled as an id no Person has.
Null == 0

PersonIds == 1..MaxPersons

\* Status.Open and Status.Closed are the two values the handler filters on;
\* InProgress stands for every other value of the enum.
Status == {"Open", "InProgress", "Closed"}

\* The static catalog imported as ticketMetadata: type -> text, color, icon.
ticketMetadata ==
  [type |-> [Hardware |-> [text |-> "Soporte de hardware", color |-> "blue", icon |-> "cpu"],
             Software |-> [text |-> "Soporte de software", color |-> "green", icon |-> "code"]]]

Types == DOMAIN ticketMetadata.type

\* createdAt values, as UTC calendar fields of the Date.
Dates ==
  { [year |-> 2024, month |-> 1, day |-> 5],
    [year |-> 2024, month |-> 1, day |-> 20],
    [year |-> 2024, month |-> 2, day |-> 1],
    [year |-> 2023, month |-> 1, day |-> 20] }

DefaultType == "Hardware"
DefaultDate == [year |-> 2024, month |-> 1, day |-> 5]
DefaultClient == CHOOSE p \in PersonIds : \A q \in PersonIds : p <= q

\* Person rows: firstName and lastName by id.
firstName == [p \in PersonIds |-> IF p = 1 THEN "Ana" ELSE "Luis"]
lastName == [p \in PersonIds |-> IF p = 1 THEN "Diaz" ELSE "Rojas"]

VARIABLES
  tickets,    \* the Ticket table: a sequence of rows, the id is the index
  persons,    \* the ids of the Person rows that exist
  pc,         \* where the handler of the request in flight stands
  session,    \* what getServerSession returned: TRUE a session, FALSE null
  route,      \* searchParams.get("route")
  response,   \* the Response returned, NoResponse before
  nq,         \* store queries issued by the request in flight
  nfail,      \* store queries of the request that failed
  invoked,    \* aggregation functions called by GET for the request
  escaped,    \* an exception left the handler
  loc,        \* the locals of getSummary and getResolutionRate
  groups,     \* the groupBy result the per-group callbacks run over
  maps        \* one entry per group: the state of its async callback

vars == <<tickets, persons, pc, session, route, response, nq, nfail, invoked,
          escaped, loc, groups, maps>>

store == <<tickets, persons>>
request == <<pc, session, route, response, nq, nfail, invoked, escaped, loc,
             groups, maps>>

\* ------------------------------------------------ the store's query results

\* prisma.ticket.count(): the number of rows.
CountAll(t) == Len(t)

\* A count that drops its where clause.
CountStatusUnfiltered(t, st) == Len(t)

\* prisma.ticket.count({ where: { status } }).
CountStatus(t, st) == Cardinality({i \in DOMAIN t : t[i].status = st})

\* prisma.ticket.count({ where: { userId, status } }).
CountUserStatus(t, u, st) ==
  Cardinality({i \in DOMAIN t : t[i].userId = u /\ t[i].status = st})

\* prisma.ticket.count({ where: { clientId, status } }).
CountClientStatus(t, c, st) ==
  Cardinality({i \in DOMAIN t : t[i].clientId = c /\ t[i].status = st})

\* prisma.person.findUnique({ where: { id } }): the row, or null (FALSE).
FindUnique(ps, id) == id \in ps

\* The orders in which a query without orderBy may return the keys S.
Orders(S) ==
  {f \in [1..Cardinality(S) -> S] : \A i, j \in DOMAIN f : i # j => f[i] # f[j]}

\* groupBy({ by: ["userId"], _count: { _all: true } }), its keys in order o.
GroupByUser(t, o) ==
  [k \in DOMAIN o |->
     [userId |-> o[k],
      _count |-> [_all |-> Cardinality({i \in DOMAIN t : t[i].userId = o[k]})]]]

\* groupBy({ by: ["clientId"], _count: { _all: true, status: true } }).
GroupByClient(t, o) ==
  [k \in DOMAIN o |->
     [clientId |-> o[k],
      _count |-> [_all |-> Cardinality({i \in DOMAIN t : t[i].clientId = o[k]}),
                  status |-> Cardinality({i \in DOMAIN t : t[i].clientId = o[k]})]]]

\* groupBy({ by: ["type"], _count: { _all: true } }).
GroupByType(t, o) ==
  [k \in DOMAIN o |->
     [type |-> o[k],
      _count |-> [_all |-> Cardinality({i \in DOMAIN t : t[i].type = o[k]})]]]

\* The instant of a Date as one number, for orderBy createdAt.
DateKey(d) == d.year * 10000 + d.month * 100 + d.day

RECURSIVE SortAsc(_)
SortAsc(S) ==
  IF S = {} THEN <<>>
  ELSE LET m == CHOOSE d \in S : \A e \in S : DateKey(d) <= DateKey(e)
       IN <<m>> \o SortAsc(S \ {m})

\* groupBy({ by: ["createdAt"], _count: { _all: true },
\*           orderBy: { createdAt: "asc" } }): one group per exact timestamp.
GroupByCreatedAt(t) ==
  LET o == SortAsc({t[i].createdAt : i \in DOMAIN t})
  IN [k \in DOMAIN o |->
        [createdAt |-> o[k],
         _count |-> [_all |-> Cardinality({i \in DOMAIN t : t[i].createdAt = o[k]})]]]

\* take: 5
TakeRecent == 5

\* findMany({ orderBy: { createdAt: "desc" }, take: 5 }): the row ids in an
\* order o of all rows that is descending by createdAt, cut to the first 5.
IsDescending(t, o) ==
  \A i, j \in DOMAIN o :
    i < j => DateKey(t[o[i]].createdAt) >= DateKey(t[o[j]].createdAt)

FindManyRecent(t, o) ==
  LET n == IF Len(t) < TakeRecent THEN Len(t) ELSE TakeRecent
  IN [k \in 1..n |-> [id |-> o[k], row |-> t[o[k]]]]

\* ------------------------------------------------------------- conversions

Digit == <<"0", "1", "2", "3", "4", "5", "6", "7", "8", "9">>

Pad2(n) == <<Digit[((n \div 10) % 10) + 1], Digit[(n % 10) + 1]>>

Pad4(n) == Pad2(n \div 100) \o Pad2(n % 100)

\* Date.prototype.toISOString() for a year in 0..9999, character by character:
\* "YYYY-MM-DDT00:00:00.000Z" (the time of day does not reach slice(0, 7)).
toISOString(d) ==
  Pad4(d.year) \o <<"-">> \o Pad2(d.month) \o <<"-">> \o Pad2(d.day) \o <<"T">>

\* String.prototype.slice(from, to) with 0 <= from <= to <= length.
slice(s, from, to) == SubSeq(s, from + 1, to)

\* A key cut after the day, YYYY-MM-DD.
MonthOfCutAtDay(d) == slice(toISOString(d), 0, 10)

\* item.createdAt.toISOString().slice(0, 7)
MonthOf(d) == slice(toISOString(d), 0, 7)

\* The reduce of getMonthlySummary: acc is the object under construction, its
\* entries kept in insertion order (what Object.values returns).
RECURSIVE MonthlyReduce(_, _)
MonthlyReduce(acc, items) ==
  IF items = <<>> THEN acc
  ELSE LET item == Head(items)
           month == MonthOf(item.createdAt)
           at == {k \in DOMAIN acc : acc[k].month = month}
           acc1 == IF at = {} THEN Append(acc, [month |-> month, tickets |-> 0])
                   ELSE acc
           k == CHOOSE x \in DOMAIN acc1 : acc1[x].month = month
       IN MonthlyReduce(
            [acc1 EXCEPT ![k].tickets = @ + item._count._all], Tail(items))

\* An entry that carries the raw type instead of the catalog's label.
CategoryEntryRawType(item) ==
  [type |-> item.type,
   _count |-> item._count,
   color |-> ticketMetadata.type[item.type].color,
   icon |-> ticketMetadata.type[item.type].icon]

\* The map of getByCategory over the groupBy result.
CategoryEntry(item) ==
  [type |-> ticketMetadata.type[item.type].text,
   _count |-> item._count,
   color |-> ticketMetadata.type[item.type].color,
   icon |-> ticketMetadata.type[item.type].icon]

\* A JavaScript number that is not finite.
NaN == "NaN"
Infinity == "Infinity"

\* (completedTickets / totalTickets) * 100 in IEEE arithmetic: 0/0 is NaN,
\* c/0 is Infinity, anything else the quotient (kept as an exact fraction).
ResolutionRateOf(completedTickets, totalTickets) ==
  IF totalTickets = 0
  THEN IF completedTickets = 0 THEN [kind |-> NaN] ELSE [kind |-> Infinity]
  ELSE [kind |-> "finite", num |-> completedTickets * 100, den |-> totalTickets]

\* JSON.stringify of a number: a non-finite number is written as null.
StringifyNumber(v) == IF v.kind \in {NaN, Infinity} THEN [kind |-> "null"] ELSE v

\* `${user.firstName} ${user.lastName}`
FullName(p) == firstName[p] \o " " \o lastName[p]

\* monthlySummaryRaw.filter((item) => item.userId !== null)
FilterAssigned(raw) == SelectSeq(raw, LAMBDA item : item.userId # Null)

\* result.filter(Boolean) over the callbacks' values; a value is <<entry>>, or
\* <<>> for the null a callback returned.
RECURSIVE Flatten(_)
Flatten(vs) == IF vs = <<>> THEN <<>> ELSE Head(vs) \o Flatten(Tail(vs))

\* ------------------------------------------------------------- the handler

\* new Response(JSON.stringify(body), { status, headers }).
Json(status, body) == [status |-> status, body |-> body]

NoResponse == Json(0, [message |-> "none"])

NoLoc == [totalTickets |-> 0, pendingTickets |-> 0, completedTickets |-> 0]

\* searchParams.get("route") of a URL without the parameter.
NoRoute == "<absent>"

SupportedRoutes ==
  {"summary", "resolution-rate", "monthly-summary", "by-category",
   "technician-performance", "company-summary", "recent-tickets"}

RouteInputs == SupportedRoutes \cup {"unknown", NoRoute}

\* A session check that lets every request through.
UnauthenticatedNever(s) == FALSE

\* if (!session)
Unauthenticated(s) == ~s

\* A switch whose default case falls into getSummary.
DispatchDefaultSummary(r) ==
  CASE r = "resolution-rate" -> "getResolutionRate"
    [] r = "monthly-summary" -> "getMonthlySummary"
    [] r = "by-category" -> "getByCategory"
    [] r = "technician-performance" -> "getTechnicianPerformance"
    [] r = "company-summary" -> "getCompanySummary"
    [] r = "recent-tickets" -> "getRecentTickets"
    [] OTHER -> "getSummary"

\* switch (route): the function each case calls, "none" for the default case.
Dispatch(r) ==
  CASE r = "summary" -> "getSummary"
    [] r = "resolution-rate" -> "getResolutionRate"
    [] r = "monthly-summary" -> "getMonthlySummary"
    [] r = "by-category" -> "getByCategory"
    [] r = "technician-performance" -> "getTechnicianPerformance"
    [] r = "company-summary" -> "getCompanySummary"
    [] r = "recent-tickets" -> "getRecentTickets"
    [] OTHER -> "none"

\* The message of each function's catch block (written here without accents).
ErrorMessage ==
  [getRecentTickets |-> "Hubo un error al obtener los tickets recientes",
   getSummary |-> "Hubo un error al obtener el resumen de tickets",
   getResolutionRate |-> "Hubo un error al obtener la tasa de resolucion",
   getMonthlySummary |-> "Hubo un error al obtener el resumen mensual de tickets",
   getByCategory |-> "Hubo un error al obtener el desglose por categoria",
   getTechnicianPerformance |->
     "Hubo un error al obtener el rendimiento de los tecnicos",
   getCompanySummary |-> "Hubo un error al obtener el resumen por empresa"]

\* getTechnicianPerformance awaiting Promise.all after its try block.
InTryButPromiseAll(fn) == fn # "getTechnicianPerformance"

\* Whether the queries of fn are awaited inside its try block.
InTry(fn) == TRUE

\* The catch block of fn.
Caught(fn) == Json(500, [message |-> ErrorMessage[fn]])

\* A query awaited by fn rejected: the catch block answers, or, outside a try
\* block, the exception leaves the handler.
Throw(fn) ==
  /\ nfail' = nfail + 1
  /\ pc' = "done"
  /\ response' = IF InTry(fn) THEN Caught(fn) ELSE response
  /\ escaped' = (escaped \/ ~InTry(fn))

\* A request arrives: the session and the route parameter are its inputs.
ReceiveRequest(s, r) ==
  /\ pc = "idle"
  /\ pc' = "GET"
  /\ session' = s
  /\ route' = r
  /\ response' = NoResponse
  /\ nq' = 0
  /\ nfail' = 0
  /\ invoked' = <<>>
  /\ escaped' = FALSE
  /\ loc' = NoLoc
  /\ groups' = <<>>
  /\ maps' = <<>>
  /\ UNCHANGED store

\* GET, from the session check to the call of the aggregation function.
GET ==
  /\ pc = "GET"
  /\ IF Unauthenticated(session)
     THEN /\ response' = Json(401, [message |-> "Unauthorized"])
          /\ pc' = "done"
          /\ UNCHANGED invoked
     ELSE IF Dispatch(route) = "none"
     THEN /\ response' = Json(400, [message |-> "Invalid route"])
          /\ pc' = "done"
          /\ UNCHANGED invoked
     ELSE /\ pc' = Dispatch(route)
          /\ invoked' = Append(invoked, Dispatch(route))
          /\ UNCHANGED response
  /\ UNCHANGED <<store, session, route, nq, nfail, escaped, loc, groups, maps>>

\* getRecentTickets: the findMany and the response.
getRecentTickets(ok, o) ==
  /\ pc = "getRecentTickets"
  /\ nq' = nq + 1
  /\ IF ok
     THEN /\ IsDescending(tickets, o)
          /\ response' = Json(200, FindManyRecent(tickets, o))
          /\ pc' = "done"
          /\ UNCHANGED <<nfail, escaped>>
     ELSE Throw("getRecentTickets")
  /\ UNCHANGED <<store, session, route, invoked, loc, groups, maps>>

\* getSummary: const totalTickets = await prisma.ticket.count()
getSummaryTotal(ok) ==
  /\ pc = "getSummary"
  /\ nq' = nq + 1
  /\ IF ok
     THEN /\ loc' = [loc EXCEPT !.totalTickets = CountAll(tickets)]
          /\ pc' = "getSummary.pending"
          /\ UNCHANGED <<response, nfail, escaped>>
     ELSE Throw("getSummary") /\ UNCHANGED loc
  /\ UNCHANGED <<store, session, route, invoked, groups, maps>>

\* getSummary: const pendingTickets = await prisma.ticket.count({ Open })
getSummaryPending(ok) ==
  /\ pc = "getSummary.pending"
  /\ nq' = nq + 1
  /\ IF ok
     THEN /\ loc' = [loc EXCEPT !.pendingTickets = CountStatus(tickets, "Open")]
          /\ pc' = "getSummary.completed"
          /\ UNCHANGED <<response, nfail, escaped>>
     ELSE Throw("getSummary") /\ UNCHANGED loc
  /\ UNCHANGED <<store, session, route, invoked, groups, maps>>

\* The body of getSummary's response.
SummaryBody(l) ==
  [totalTickets |-> l.totalTickets,
   pendingTickets |-> l.pendingTickets,
   completedTickets |-> l.completedTickets]

\* getSummary: const completedTickets = await ...count({ Closed }); return.
getSummaryCompleted(ok) ==
  /\ pc = "getSummary.completed"
  /\ nq' = nq + 1
  /\ IF ok
     THEN /\ loc' = [loc EXCEPT !.completedTickets = CountStatus(tickets, "Closed")]
          /\ response' = Json(200, SummaryBody(loc'))
          /\ pc' = "done"
          /\ UNCHANGED <<nfail, escaped>>
     ELSE Throw("getSummary") /\ UNCHANGED loc
  /\ UNCHANGED <<store, session, route, invoked, groups, maps>>

\* getResolutionRate: const totalTickets = await prisma.ticket.count()
getResolutionRateTotal(ok) ==
  /\ pc = "getResolutionRate"
  /\ nq' = nq + 1
  /\ IF ok
     THEN /\ loc' = [loc EXCEPT !.totalTickets = CountAll(tickets)]
          /\ pc' = "getResolutionRate.completed"
          /\ UNCHANGED <<response, nfail, escaped>>
     ELSE Throw("getResolutionRate") /\ UNCHANGED loc
  /\ UNCHANGED <<store, session, route, invoked, groups, maps>>

\* The body of getResolutionRate's response, as JSON.stringify writes it.
ResolutionRateBody(l) ==
  [resolutionRate |->
     StringifyNumber(ResolutionRateOf(l.completedTickets, l.totalTickets))]

\* getResolutionRate: the Closed count, the division and the response.
getResolutionRateCompleted(ok) ==
  /\ pc = "getResolutionRate.completed"
  /\ nq' = nq + 1
  /\ IF ok
     THEN /\ loc' = [loc EXCEPT !.completedTickets = CountStatus(tickets, "Closed")]
          /\ response' = Json(200, ResolutionRateBody(loc'))
          /\ pc' = "done"
          /\ UNCHANGED <<nfail, escaped>>
     ELSE Throw("getResolutionRate") /\ UNCHANGED loc
  /\ UNCHANGED <<store, session, route, invoked, groups, maps>>

\* getMonthlySummary: the groupBy, the reduce and the response.
getMonthlySummary(ok) ==
  /\ pc = "getMonthlySummary"
  /\ nq' = nq + 1
  /\ IF ok
     THEN /\ response' = Json(200, MonthlyReduce(<<>>, GroupByCreatedAt(tickets)))
          /\ pc' = "done"
          /\ UNCHANGED <<nfail, escaped>>
     ELSE Throw("getMonthlySummary")
  /\ UNCHANGED <<store, session, route, invoked, loc, groups, maps>>

\* ticketsByCategory.map(...)
CategoryResult(raw) == [k \in DOMAIN raw |-> CategoryEntry(raw[k])]

\* getByCategory: the groupBy, the map and the response.
getByCategory(ok, o) ==
  /\ pc = "getByCategory"
  /\ nq' = nq + 1
  /\ IF ok
     THEN /\ response' = Json(200, CategoryResult(GroupByType(tickets, o)))
          /\ pc' = "done"
          /\ UNCHANGED <<nfail, escaped>>
     ELSE Throw("getByCategory")
  /\ UNCHANGED <<store, session, route, invoked, loc, groups, maps>>

\* The state of one async callback of a .map(async (item) => ...): the await it
\* stands at ("findUnique", "countClosed", "countOpen"), or "resolved" with
\* value <<entry>> (<<>> for null), or "rejected".
StartCallback ==
  [at |-> "findUnique", found |-> FALSE, completed |-> 0, value |-> <<>>]

Values(m) == [k \in DOMAIN m |-> m[k].value]

AllResolved(m) == \A k \in DOMAIN m : m[k].at = "resolved"

AllSettled(m) == \A k \in DOMAIN m : m[k].at \in {"resolved", "rejected"}

AnyRejected(m) == \E k \in DOMAIN m : m[k].at = "rejected"

\* await Promise.all(callbacks) inside the try block of fn, after one callback
\* moved the callbacks to m: the first rejection is thrown into the catch
\* block, the last resolution lets fn return body; the callbacks still
\* running keep running whatever was returned.
AwaitPromiseAll(fn, m, body) ==
  /\ response' =
       IF response.status # 0 THEN response
       ELSE IF AnyRejected(m) THEN (IF InTry(fn) THEN Caught(fn) ELSE response)
       ELSE IF AllResolved(m) THEN Json(200, body)
       ELSE response
  /\ escaped' = (escaped \/ (AnyRejected(m) /\ ~InTry(fn)))
  /\ pc' = IF AllSettled(m) THEN "done" ELSE pc

\* getTechnicianPerformance: the groupBy, the filter and the start of the
\* callbacks.
getTechnicianPerformance(ok, o) ==
  /\ pc = "getTechnicianPerformance"
  /\ nq' = nq + 1
  /\ IF ok
     THEN /\ groups' = FilterAssigned(GroupByUser(tickets, o))
          /\ maps' = [k \in DOMAIN groups' |-> StartCallback]
          /\ IF groups' = <<>>
             THEN response' = Json(200, <<>>) /\ pc' = "done"
             ELSE response' = response /\ pc' = "getTechnicianPerformance.all"
          /\ UNCHANGED <<nfail, escaped>>
     ELSE Throw("getTechnicianPerformance") /\ UNCHANGED <<groups, maps>>
  /\ UNCHANGED <<store, session, route, invoked, loc>>

\* The object a callback of getTechnicianPerformance returns.
TechnicianEntry(item, completedTickets, pendingTickets) ==
  [name |-> FullName(item.userId),
   total |-> item._count._all,
   completed |-> completedTickets,
   pending |-> pendingTickets]

\* A callback without `if (!user) return null`.
TechnicianCallbackKeepsMissing(c, item, ok) ==
  IF ~ok THEN [c EXCEPT !.at = "rejected"]
  ELSE IF c.at = "findUnique"
  THEN [c EXCEPT !.at = "countClosed",
                 !.found = FindUnique(persons, item.userId)]
  ELSE IF c.at = "countClosed"
  THEN [c EXCEPT !.at = "countOpen",
                 !.completed = CountUserStatus(tickets, item.userId, "Closed")]
  ELSE [c EXCEPT !.at = "resolved",
                 !.value = <<TechnicianEntry(item, c.completed,
                               CountUserStatus(tickets, item.userId, "Open"))>>]

\* One await of the callback of getTechnicianPerformance for group k.
TechnicianCallback(c, item, ok) ==
  IF ~ok THEN [c EXCEPT !.at = "rejected"]
  ELSE IF c.at = "findUnique"
  THEN IF FindUnique(persons, item.userId)
       THEN [c EXCEPT !.at = "countClosed", !.found = TRUE]
       ELSE [c EXCEPT !.at = "resolved", !.value = <<>>]
  ELSE IF c.at = "countClosed"
  THEN [c EXCEPT !.at = "countOpen",
                 !.completed = CountUserStatus(tickets, item.userId, "Closed")]
  ELSE [c EXCEPT !.at = "resolved",
                 !.value = <<TechnicianEntry(item, c.completed,
                               CountUserStatus(tickets, item.userId, "Open"))>>]

getTechnicianPerformanceCallback(k, ok) ==
  /\ pc = "getTechnicianPerformance.all"
  /\ k \in DOMAIN maps
  /\ maps[k].at \notin {"resolved", "rejected"}
  /\ nq' = nq + 1
  /\ nfail' = IF ok THEN nfail ELSE nfail + 1
  /\ maps' = [maps EXCEPT ![k] = TechnicianCallback(maps[k], groups[k], ok)]
  /\ AwaitPromiseAll("getTechnicianPerformance", maps', Flatten(Values(maps')))
  /\ UNCHANGED <<store, session, route, invoked, loc, groups>>

\* getCompanySummary: the groupBy and the start of the callbacks.
getCompanySummary(ok, o) ==
  /\ pc = "getCompanySummary"
  /\ nq' = nq + 1
  /\ IF ok
     THEN /\ groups' = GroupByClient(tickets, o)
          /\ maps' = [k \in DOMAIN groups' |-> StartCallback]
          /\ IF groups' = <<>>
             THEN response' = Json(200, <<>>) /\ pc' = "done"
             ELSE response' = response /\ pc' = "getCompanySummary.all"
          /\ UNCHANGED <<nfail, escaped>>
     ELSE Throw("getCompanySummary") /\ UNCHANGED <<groups, maps>>
  /\ UNCHANGED <<store, session, route, invoked, loc>>

\* The object a callback of getCompanySummary returns.
CompanyEntry(item, client, completedTickets, pendingTickets) ==
  [name |-> IF client THEN FullName(item.clientId) ELSE "Unknown",
   completed |-> completedTickets,
   pending |-> pendingTickets]

\* A callback that returns null for a client that is not found.
CompanyCallbackDropsMissing(c, item, ok) ==
  IF ~ok THEN [c EXCEPT !.at = "rejected"]
  ELSE IF c.at = "findUnique"
  THEN IF FindUnique(persons, item.clientId)
       THEN [c EXCEPT !.at = "countClosed", !.found = TRUE]
       ELSE [c EXCEPT !.at = "resolved", !.value = <<>>]
  ELSE IF c.at = "countClosed"
  THEN [c EXCEPT !.at = "countOpen",
                 !.completed = CountClientStatus(tickets, item.clientId, "Closed")]
  ELSE [c EXCEPT !.at = "resolved",
                 !.value = <<CompanyEntry(item, c.found, c.completed,
                               CountClientStatus(tickets, item.clientId, "Open"))>>]

\* One await of the callback of getCompanySummary for group k.
CompanyCallback(c, item, ok) ==
  IF ~ok THEN [c EXCEPT !.at = "rejected"]
  ELSE IF c.at = "findUnique"
  THEN [c EXCEPT !.at = "countClosed",
                 !.found = FindUnique(persons, item.clientId)]
  ELSE IF c.at = "countClosed"
  THEN [c EXCEPT !.at = "countOpen",
                 !.completed = CountClientStatus(tickets, item.clientId, "Closed")]
  ELSE [c EXCEPT !.at = "resolved",
                 !.value = <<CompanyEntry(item, c.found, c.completed,
                               CountClientStatus(tickets, item.clientId, "Open"))>>]

getCompanySummaryCallback(k, ok) ==
  /\ pc = "getCompanySummary.all"
  /\ k \in DOMAIN maps
  /\ maps[k].at \notin {"resolved", "rejected"}
  /\ nq' = nq + 1
  /\ nfail' = IF ok THEN nfail ELSE nfail + 1
  /\ maps' = [maps EXCEPT ![k] = CompanyCallback(maps[k], groups[k], ok)]
  /\ AwaitPromiseAll("getCompanySummary", maps', Flatten(Values(maps')))
  /\ UNCHANGED <<store, session, route, invoked, loc, groups>>

\* ------------------------------------------- the rest of the application

\* A ticket is created (by the ticket-creation flow): a new row, Open and
\* unassigned.
CreateTicket(c) ==
  /\ Len(tickets) < MaxConcurrentTickets
  /\ tickets' = Append(tickets,
       [status |-> "Open", type |-> DefaultType, userId |-> Null,
        clientId |-> c, createdAt |-> DefaultDate])
  /\ UNCHANGED <<persons, request>>

\* A ticket's status is changed.
ChangeStatus(i, st) ==
  /\ i \in DOMAIN tickets
  /\ tickets[i].status # st
  /\ tickets' = [tickets EXCEPT ![i].status = st]
  /\ UNCHANGED <<persons, request>>

\* A ticket is assigned to a technician (by the assignment flow).
AssignTicket(i, u) ==
  /\ i \in DOMAIN tickets
  /\ tickets[i].userId # u
  /\ tickets' = [tickets EXCEPT ![i].userId = u]
  /\ UNCHANGED <<persons, request>>

\* ----------------------------------------------------- the specifications

SeqsUpTo(T, n) == UNION {[1..m -> T] : m \in 0..n}

RowsByStatusAndUser ==
  [status : Status, type : {DefaultType}, userId : {Null} \cup PersonIds,
   clientId : {DefaultClient}, createdAt : {DefaultDate}]

RowsByStatusAndClient ==
  [status : Status, type : {DefaultType}, userId : {Null},
   clientId : PersonIds, createdAt : {DefaultDate}]

RowsByStatus ==
  [status : Status, type : {DefaultType}, userId : {Null},
   clientId : {DefaultClient}, createdAt : {DefaultDate}]

RowsByUser ==
  [status : {"Open"}, type : {DefaultType}, userId : {Null} \cup PersonIds,
   clientId : {DefaultClient}, createdAt : {DefaultDate}]

RowsByType ==
  [status : {"Open"}, type : Types, userId : {Null},
   clientId : {DefaultClient}, createdAt : {DefaultDate}]

RowsByDate ==
  [status : {"Open"}, type : {DefaultType}, userId : {Null},
   clientId : {DefaultClient}, createdAt : Dates]

\* The aggregation functions that read status, userId or clientId count and
\* group rows whatever their ids, so of the tables that differ only in which
\* id holds which row one is kept: the one whose rows are in RowRank order.
StatusRank(st) == CASE st = "Open" -> 0 [] st = "InProgress" -> 1 [] OTHER -> 2

RowRank(r) ==
  StatusRank(r.status) + 3 * r.userId + 3 * (MaxPersons + 1) * r.clientId

InRankOrder(t) ==
  \A i, j \in DOMAIN t : i < j => RowRank(t[i]) <= RowRank(t[j])

\* The ticket tables a request is run on: up to MaxTickets rows that differ in
\* one column, or up to MaxGroupedTickets rows that differ in the two columns
\* a per-group count reads.
Stores ==
  {t \in SeqsUpTo(RowsByStatusAndUser, MaxGroupedTickets) : InRankOrder(t)}
    \cup {t \in SeqsUpTo(RowsByStatusAndClient, MaxGroupedTickets) : InRankOrder(t)}
    \cup {t \in SeqsUpTo(RowsByStatus, MaxTickets) : InRankOrder(t)}
    \cup {t \in SeqsUpTo(RowsByUser, MaxTickets) : InRankOrder(t)}
    \cup SeqsUpTo(RowsByType, MaxTickets)
    \cup SeqsUpTo(RowsByDate, MaxTickets)

NoRequest ==
  /\ pc = "idle"
  /\ session = FALSE
  /\ route = NoRoute
  /\ response = NoResponse
  /\ nq = 0
  /\ nfail = 0
  /\ invoked = <<>>
  /\ escaped = FALSE
  /\ loc = NoLoc
  /\ groups = <<>>
  /\ maps = <<>>

\* The Person tables a request is run on: the Persons 1..k exist, the
\* Persons above k were deleted.
PersonTables == {1..k : k \in 0..MaxPersons}

Init ==
  /\ tickets \in Stores
  /\ persons \in PersonTables
  /\ NoRequest

InitConcurrent ==
  /\ tickets \in SeqsUpTo(RowsByStatusAndUser, MaxConcurrentTickets)
  /\ persons = PersonIds
  /\ NoRequest

\* The steps of the handler.
Handler ==
  \/ \E s \in BOOLEAN, r \in RouteInputs : ReceiveRequest(s, r)
  \/ GET
  \/ \E ok \in BOOLEAN, o \in Orders(DOMAIN tickets) : getRecentTickets(ok, o)
  \/ \E ok \in BOOLEAN : getSummaryTotal(ok)
  \/ \E ok \in BOOLEAN : getSummaryPending(ok)
  \/ \E ok \in BOOLEAN : getSummaryCompleted(ok)
  \/ \E ok \in BOOLEAN : getResolutionRateTotal(ok)
  \/ \E ok \in BOOLEAN : getResolutionRateCompleted(ok)
  \/ \E ok \in BOOLEAN : getMonthlySummary(ok)
  \/ \E ok \in BOOLEAN, o \in Orders({tickets[i].type : i \in DOMAIN tickets}) :
       getByCategory(ok, o)
  \/ \E ok \in BOOLEAN, o \in Orders({tickets[i].userId : i \in DOMAIN tickets}) :
       getTechnicianPerformance(ok, o)
  \/ \E ok \in BOOLEAN, k \in DOMAIN maps : getTechnicianPerformanceCallback(k, ok)
  \/ \E ok \in BOOLEAN, o \in Orders({tickets[i].clientId : i \in DOMAIN tickets}) :
       getCompanySummary(ok, o)
  \/ \E ok \in BOOLEAN, k \in DOMAIN maps : getCompanySummaryCallback(k, ok)

\* The steps of the rest of the application on the store.
Application ==
  \/ \E c \in PersonIds : CreateTicket(c)
  \/ \E i \in DOMAIN tickets, st \in Status : ChangeStatus(i, st)
  \/ \E i \in DOMAIN tickets, u \in {Null} \cup PersonIds : AssignTicket(i, u)

\* A request handled on a store that does not change while it is handled.
Next == Handler

Spec == Init /\ [][Next]_vars

\* A request handled while the rest of the application changes the store.
NextConcurrent == Handler \/ Application

SpecConcurrent == InitConcurrent /\ [][NextConcurrent]_vars

\* ------------------------------------------------------------- properties

\* The request in flight has been answered with status st.
Answered(r, st) == pc = "done" /\ session /\ route = r /\ response.status = st

\* How many entries of the list body equal e.
Occurrences(body, e) == Cardinality({k \in DOMAIN body : body[k] = e})

\* C1: a request without a session is answered 401 { message: "Unauthorized" }
\* whatever its route parameter, and no store query is issued and no
\* aggregation function is called for it, before or after the response.
C1_UnauthorizedNoQuery ==
  (pc # "idle" /\ ~session) =>
    /\ nq = 0
    /\ invoked = <<>>
    /\ pc \in {"GET", "done"}
    /\ (pc = "GET" => response.status = 0)
    /\ (pc = "done" =>
          /\ response.status = 401
          /\ response.body = [message |-> "Unauthorized"])

C1_Witness ==
  /\ pc = "done"
  /\ ~session
  /\ route = "technician-performance"
  /\ Len(tickets) > 0
  /\ response.status = 401

\* C2: with a session, a route parameter outside the seven supported names
\* (or absent) is answered 400 { message: "Invalid route" } with no store query
\* and no aggregation function called; a supported name calls exactly one
\* aggregation function, the one of that name.
C2_RouteDispatch ==
  (pc \notin {"idle", "GET"} /\ session) =>
    /\ (route = "summary" => invoked = <<"getSummary">>)
    /\ (route = "resolution-rate" => invoked = <<"getResolutionRate">>)
    /\ (route = "monthly-summary" => invoked = <<"getMonthlySummary">>)
    /\ (route = "by-category" => invoked = <<"getByCategory">>)
    /\ (route = "technician-performance" => invoked = <<"getTechnicianPerformance">>)
    /\ (route = "company-summary" => invoked = <<"getCompanySummary">>)
    /\ (route = "recent-tickets" => invoked = <<"getRecentTickets">>)
    /\ (route \in {"unknown", NoRoute} =>
          /\ invoked = <<>>
          /\ nq = 0
          /\ pc = "done"
          /\ response.status = 400
          /\ response.body = [message |-> "Invalid route"])

C2_Witness ==
  /\ pc = "done"
  /\ session
  /\ route = NoRoute
  /\ Len(tickets) > 0
  /\ response.status = 400

\* C3: once a store query of an aggregation function has failed, whichever
\* query it is, the response is 500 with a body of a message field only, and
\* no exception has left the handler.
C3_FailureIs500 ==
  nfail > 0 =>
    /\ response.status = 500
    /\ DOMAIN response.body = {"message"}
    /\ ~escaped

\* A per-group query of Technician Performance fails after another group's
\* entry has been computed.
C3_Witness ==
  /\ nfail > 0
  /\ route = "technician-performance"
  /\ \E k \in DOMAIN maps : maps[k].at = "resolved" /\ maps[k].value # <<>>
  /\ \E k \in DOMAIN maps : maps[k].at = "rejected"
  /\ response.status = 500

\* C4: on a non-empty ticket table, the Summary response carries the number of
\* tickets, of Open tickets and of Closed tickets, and
\* pendingTickets + completedTickets <= totalTickets.
C4_SummaryCounts ==
  (Answered("summary", 200) /\ tickets # <<>>) =>
    /\ response.body.totalTickets = Len(tickets)
    /\ response.body.pendingTickets =
         Cardinality({i \in DOMAIN tickets : tickets[i].status = "Open"})
    /\ response.body.completedTickets =
         Cardinality({i \in DOMAIN tickets : tickets[i].status = "Closed"})
    /\ response.body.pendingTickets + response.body.completedTickets
         <= response.body.totalTickets

C4_Witness ==
  /\ Answered("summary", 200)
  /\ \E i \in DOMAIN tickets : tickets[i].status = "Open"
  /\ \E i \in DOMAIN tickets : tickets[i].status = "Closed"
  /\ \E i \in DOMAIN tickets : tickets[i].status = "InProgress"
  /\ response.body.pendingTickets + response.body.completedTickets
       < response.body.totalTickets

\* C5: with zero tickets, the Resolution Rate response carries a number, not
\* what 0 / 0 leaves in the body.
C5_ZeroTicketsRateDefined ==
  (Answered("resolution-rate", 200) /\ loc.totalTickets = 0) =>
    response.body.resolutionRate.kind = "finite"

\* The calendar months (year, month) in which a ticket was created.
CreationMonths == {<<tickets[i].createdAt.year, tickets[i].createdAt.month>> :
                     i \in DOMAIN tickets}

CreatedIn(ym) ==
  Cardinality({i \in DOMAIN tickets :
     <<tickets[i].createdAt.year, tickets[i].createdAt.month>> = ym})

\* YYYY-MM of the calendar months of Dates.
MonthLabel(ym) ==
  CASE ym = <<2024, 1>> -> <<"2", "0", "2", "4", "-", "0", "1">>
    [] ym = <<2024, 2>> -> <<"2", "0", "2", "4", "-", "0", "2">>
    [] ym = <<2023, 1>> -> <<"2", "0", "2", "3", "-", "0", "1">>

\* C6: the Monthly Summary response has exactly one { month, tickets } entry
\* per calendar month (YYYY-MM) in which a ticket was created, none for any
\* other month, and tickets is the number of tickets created in that month.
C6_MonthlyBuckets ==
  Answered("monthly-summary", 200) =>
    /\ Len(response.body) = Cardinality(CreationMonths)
    /\ \A ym \in CreationMonths :
         /\ Cardinality({k \in DOMAIN response.body :
                           response.body[k].month = MonthLabel(ym)}) = 1
         /\ Occurrences(response.body,
              [month |-> MonthLabel(ym), tickets |-> CreatedIn(ym)]) = 1

\* Tickets of 2024-01-05, 2024-01-20 and 2024-02-01: 2024-01 with 2 and
\* 2024-02 with 1.
C6_Witness ==
  /\ Answered("monthly-summary", 200)
  /\ {tickets[i].createdAt : i \in DOMAIN tickets} =
       { [year |-> 2024, month |-> 1, day |-> 5],
         [year |-> 2024, month |-> 1, day |-> 20],
         [year |-> 2024, month |-> 2, day |-> 1] }
  /\ response.body =
       << [month |-> MonthLabel(<<2024, 1>>), tickets |-> 2],
          [month |-> MonthLabel(<<2024, 2>>), tickets |-> 1] >>

\* The technicians that exist and have a ticket, and the entry of each.
Technicians ==
  {u \in persons : \E i \in DOMAIN tickets : tickets[i].userId = u}

ExpectedTechnician(u) ==
  [name |-> firstName[u] \o " " \o lastName[u],
   total |-> Cardinality({i \in DOMAIN tickets : tickets[i].userId = u}),
   completed |-> Cardinality({i \in DOMAIN tickets :
                   tickets[i].userId = u /\ tickets[i].status = "Closed"}),
   pending |-> Cardinality({i \in DOMAIN tickets :
                 tickets[i].userId = u /\ tickets[i].status = "Open"})]

\* C7: a successful Technician Performance response has exactly one entry per
\* userId that references an existing Person and has a ticket, and nothing
\* else: no entry for the tickets with userId = null, no entry and no null
\* element for a userId that references no Person.
C7_TechnicianGroups ==
  Answered("technician-performance", 200) =>
    /\ Len(response.body) = Cardinality(Technicians)
    /\ \A u \in Technicians :
         Occurrences(response.body, ExpectedTechnician(u)) =
           Cardinality({v \in Technicians :
                          ExpectedTechnician(v) = ExpectedTechnician(u)})

C7_Witness ==
  /\ Answered("technician-performance", 200)
  /\ \E i \in DOMAIN tickets : tickets[i].userId = Null
  /\ \E i \in DOMAIN tickets :
       tickets[i].userId # Null /\ tickets[i].userId \notin persons
  /\ \E i \in DOMAIN tickets : tickets[i].userId \in persons
  /\ Len(response.body) = 1

\* The clients that have a ticket, and the entry of each.
Clients == {tickets[i].clientId : i \in DOMAIN tickets}

ExpectedCompany(c) ==
  [name |-> IF c \in persons THEN firstName[c] \o " " \o lastName[c]
            ELSE "Unknown",
   completed |-> Cardinality({i \in DOMAIN tickets :
                   tickets[i].clientId = c /\ tickets[i].status = "Closed"}),
   pending |-> Cardinality({i \in DOMAIN tickets :
                 tickets[i].clientId = c /\ tickets[i].status = "Open"})]

\* C8: a successful Company Summary response has exactly one entry per
\* distinct clientId among the tickets; for a clientId that references no
\* Person the entry is kept, named "Unknown", with that client's Closed and
\* Open counts.
C8_CompanyGroups ==
  Answered("company-summary", 200) =>
    /\ Len(response.body) = Cardinality(Clients)
    /\ \A c \in Clients :
         Occurrences(response.body, ExpectedCompany(c)) =
           Cardinality({d \in Clients : ExpectedCompany(d) = ExpectedCompany(c)})

C8_Witness ==
  /\ Answered("company-summary", 200)
  /\ \E c \in Clients :
       /\ c \notin persons
       /\ ExpectedCompany(c).completed > 0
       /\ ExpectedCompany(c).pending > 0
       /\ ExpectedCompany(c).name = "Unknown"
       /\ Occurrences(response.body, ExpectedCompany(c)) = 1

\* The ticket types present, and the number of tickets of each.
TypesPresent == {tickets[i].type : i \in DOMAIN tickets}

OfType(ty) == Cardinality({i \in DOMAIN tickets : tickets[i].type = ty})

\* C9, as claimed: the By Category response has exactly one entry per type
\* present, of the shape { type: <label>, count, color, icon }, count the
\* number of tickets of the type, label, color and icon the catalog's.
C9_CategoryCountField ==
  Answered("by-category", 200) =>
    /\ Len(response.body) = Cardinality(TypesPresent)
    /\ \A ty \in TypesPresent :
         Occurrences(response.body,
           [type |-> ticketMetadata.type[ty].text,
            count |-> OfType(ty),
            color |-> ticketMetadata.type[ty].color,
            icon |-> ticketMetadata.type[ty].icon]) = 1

\* C9, amended: the By Category response has exactly one entry per type
\* present, of the shape { type: <label>, _count: { _all: n }, color, icon },
\* n the number of tickets of the type, label, color and icon the catalog's.
C9_CategoryEntries ==
  Answered("by-category", 200) =>
    /\ Len(response.body) = Cardinality(TypesPresent)
    /\ \A ty \in TypesPresent :
         Occurrences(response.body,
           [type |-> ticketMetadata.type[ty].text,
            _count |-> [_all |-> OfType(ty)],
            color |-> ticketMetadata.type[ty].color,
            icon |-> ticketMetadata.type[ty].icon]) = 1

C9_Witness ==
  /\ Answered("by-category", 200)
  /\ Cardinality(TypesPresent) = 2
  /\ Len(tickets) = 3
  /\ Len(response.body) = 2

\* C10: whatever the rest of the application does to the store between the
\* queries of one request, a Summary response and each Technician Performance
\* group carry the counts of one store state, so completed + pending <= total.
C10_OneSnapshot ==
  /\ Answered("summary", 200) =>
       response.body.completedTickets + response.body.pendingTickets
         <= response.body.totalTickets
  /\ Answered("technician-performance", 200) =>
       \A k \in DOMAIN response.body :
         response.body[k].completed + response.body[k].pending
           <= response.body[k].total

====
